---- MODULE Spec2Model ----
(***************************************************************************)
(* A model of python-ocf's resource agent engine (ocf/ra.py): the          *)
(* metaclass that collects Parameter and Action declarations into the      *)
(* _PARAMETERS and _ACTIONS registries of agent classes, and the           *)
(* dispatcher ResourceAgent.main / ResourceAgent.execute that runs one     *)
(* action per process and exits with an OCF status.                        *)
(*                                                                         *)
(* Python values are records tagged by a field "kind".  Optional scalars   *)
(* are None == <<>> or Some(v) == <<v>>.  Raw environment strings are      *)
(* tuples of one-character strings so that int() and the boolean token     *)
(* test are computed from the characters.  Dictionaries live in a heap     *)
(* and are held by reference, as in Python; a dictionary is the sequence   *)
(* of its items in insertion order.                                        *)
(***************************************************************************)
EXTENDS Integers, Sequences, FiniteSets, TLC

VARIABLES
    types,          \* the classes created by ResourceAgentType, in creation order
    heap,           \* the dict objects, addressed by their index
    pc,             \* "import" | "execute" | "validate" | "invoke" | "exited";
                    \* "body" | "class" | "done" while one declaration is studied
    self,           \* the class whose main() runs (0 before main)
    env,            \* ocf.env: [action, reskey]
    action_method,  \* the bound handler execute() resolved, or None
    called,         \* the handlers invoked so far, in order
    validated,      \* the parameters whose validate() returned, in order
    stdout,         \* what has been printed to standard output
    stderr,         \* what has been printed or logged to standard error
    ret,            \* the value the handler returned, or None
    exc,            \* the uncaught exception that ended the process, or None
    exit_code,      \* the process exit status, or None while running
    decl,           \* the value a declaration of a class body has built so far
    result          \* what using that declaration gave, or None

vars == <<types, heap, pc, self, env, action_method, called, validated,
          stdout, stderr, ret, exc, exit_code, decl, result>>

None == <<>>
Some(v) == <<v>>

NoneType == [kind |-> "NoneType"]

(***************************************************************************)
(* Exit codes, ocf/__init__.py                                             *)
(***************************************************************************)
OCF_SUCCESS == 0
OCF_ERR_GENERIC == 1
OCF_ERR_ARGS_generic == OCF_ERR_GENERIC

OCF_ERR_ARGS == 2
OCF_ERR_UNIMPLEMENTED_args == OCF_ERR_ARGS

OCF_ERR_UNIMPLEMENTED == 3
OCF_ERR_PERM == 4
OCF_ERR_INSTALLED == 5
OCF_ERR_CONFIGURED == 6
OCF_NOT_RUNNING == 7
OCF_RUNNING_MASTER == 8
OCF_FAILED_MASTER == 9

(***************************************************************************)
(* Bounds                                                                  *)
(***************************************************************************)
\* Number of ResourceAgent subclasses a script defines before calling main().
MaxUserTypes == 2

(***************************************************************************)
(* Strings                                                                 *)
(***************************************************************************)
Digits == {"0", "1", "2", "3", "4", "5", "6", "7", "8", "9"}

DigitVal(c) ==
    CASE c = "0" -> 0 [] c = "1" -> 1 [] c = "2" -> 2 [] c = "3" -> 3
      [] c = "4" -> 4 [] c = "5" -> 5 [] c = "6" -> 6 [] c = "7" -> 7
      [] c = "8" -> 8 [] c = "9" -> 9

RECURSIVE ParseDigits(_, _)
ParseDigits(s, acc) ==
    IF s = <<>> THEN acc
    ELSE ParseDigits(Tail(s), acc * 10 + DigitVal(Head(s)))

\* Python's int(str): an optional sign followed by decimal digits, else
\* ValueError.
int(s) ==
    LET signed == s # <<>> /\ Head(s) \in {"-", "+"}
        body == IF signed THEN Tail(s) ELSE s
    IN  IF body # <<>> /\ \A i \in 1..Len(body) : body[i] \in Digits
        THEN [ok |-> TRUE,
              val |-> IF signed /\ Head(s) = "-"
                      THEN 0 - ParseDigits(body, 0)
                      ELSE ParseDigits(body, 0)]
        ELSE [ok |-> FALSE, exc |-> "ValueError"]

\* The action and method names of the model in Python's string order;
\* sorted() of a set of them is the subsequence of its members.
NameOrder ==
    <<"bogus", "meta-data", "monitor", "promote", "start", "stop",
      "validate-all">>

sorted(S) == SelectSeq(NameOrder, LAMBDA n : n \in S)

(***************************************************************************)
(* dict                                                                    *)
(***************************************************************************)
DictKeys(d) == {d[i].key : i \in 1..Len(d)}

DictGet(d, k) == d[CHOOSE i \in 1..Len(d) : d[i].key = k].val

\* An assignment that adds an item even when the key is present.
DictSet_append(d, k, v) == Append(d, [key |-> k, val |-> v])

\* d[k] = v: a new key is appended, an existing key keeps its position.
DictSet(d, k, v) ==
    IF k \in DictKeys(d)
    THEN [i \in 1..Len(d) |-> IF d[i].key = k THEN [key |-> k, val |-> v]
                                              ELSE d[i]]
    ELSE Append(d, [key |-> k, val |-> v])

DictValues(d) == [i \in 1..Len(d) |-> d[i].val]

(***************************************************************************)
(* Attribute lookup on classes: the class's own __dict__, then its base's. *)
(* Class 0 is object.                                                      *)
(***************************************************************************)
\* A lookup that prefers the attribute of the most distant base class.
RECURSIVE getattr_root(_, _, _)
getattr_root(ts, cls, name) ==
    IF cls = 0 THEN [ok |-> FALSE, exc |-> "AttributeError"]
    ELSE LET r == getattr_root(ts, ts[cls].base, name)
         IN  IF r.ok THEN r
             ELSE IF name \in DOMAIN ts[cls].dict
                  THEN [ok |-> TRUE, val |-> ts[cls].dict[name]]
                  ELSE r

RECURSIVE getattr(_, _, _)
getattr(ts, cls, name) ==
    IF cls = 0 THEN [ok |-> FALSE, exc |-> "AttributeError"]
    ELSE IF name \in DOMAIN ts[cls].dict
         THEN [ok |-> TRUE, val |-> ts[cls].dict[name]]
         ELSE getattr(ts, ts[cls].base, name)

setattr(w, cls, name, value) ==
    [w EXCEPT !.types[cls].dict = (name :> value) @@ @]

\* cls._ACTIONS and cls._PARAMETERS, dereferenced.
cls_ACTIONS(ts, hp, cls) == hp[getattr(ts, cls, "_ACTIONS").val.id]

cls_PARAMETERS(ts, hp, cls) == hp[getattr(ts, cls, "_PARAMETERS").val.id]

(***************************************************************************)
(* class Parameter                                                         *)
(***************************************************************************)
PyStr(s) == [kind |-> "str", v |-> s]

PyInt(n) == [kind |-> "int", v |-> n]

PyBool(b) == [kind |-> "bool", v |-> b]

\* A token list that also takes the capitalised spellings.
TrueTokens_capitalised ==
    { <<"y", "e", "s">>, <<"t", "r", "u", "e">>, <<"1">>, <<"Y", "E", "S">>,
      <<"T", "R", "U", "E">>, <<"y", "a">>, <<"o", "n">>, <<"O", "N">>,
      <<"T", "r", "u", "e">>, <<"O", "n">>, <<"Y", "e", "s">> }

\* The "true" tokens of Parameter._validate_coerce.
TrueTokens ==
    { <<"y", "e", "s">>, <<"t", "r", "u", "e">>, <<"1">>, <<"Y", "E", "S">>,
      <<"T", "R", "U", "E">>, <<"y", "a">>, <<"o", "n">>, <<"O", "N">> }

\* Parameter._validate_coerce(value) for a raw string.
validate_coerce(p, value) ==
    IF p.content = "string" THEN [ok |-> TRUE, val |-> PyStr(value)]
    ELSE IF p.content = "integer"
    THEN LET r == int(value)
         IN  IF r.ok THEN [ok |-> TRUE, val |-> PyInt(r.val)]
             ELSE [ok |-> FALSE, exc |-> "ValueError"]
    ELSE IF p.content = "boolean"
    THEN [ok |-> TRUE, val |-> PyBool(value \in TrueTokens)]
    ELSE [ok |-> FALSE, exc |-> "NotImplementedError"]

\* A constructor that does not try the default against the content type.
Parameter_default_unchecked(shortdesc, longdesc, unique, required, content, default) ==
    IF content \notin {"string", "integer", "boolean"}
    THEN [ok |-> FALSE, exc |-> "ValueError",
          msg |-> "content must be one of string, integer or boolean"]
    ELSE IF default # None /\ required
    THEN [ok |-> FALSE, exc |-> "ValueError",
          msg |-> "parameter cannot both be required and have a default value"]
    ELSE [ok |-> TRUE,
          val |-> [kind |-> "Parameter", shortdesc |-> shortdesc,
                   longdesc |-> longdesc, unique |-> unique,
                   required |-> required, content |-> content,
                   default |-> default, name |-> None]]

\* Parameter.__init__: the descriptor, or the ValueError it raises.  The
\* name is bound later, by contribute_to_class.
Parameter(shortdesc, longdesc, unique, required, content, default) ==
    LET p == [kind |-> "Parameter", shortdesc |-> shortdesc,
              longdesc |-> longdesc, unique |-> unique,
              required |-> required, content |-> content,
              default |-> default, name |-> None]
    IN  IF content \notin {"string", "integer", "boolean"}
        THEN [ok |-> FALSE, exc |-> "ValueError",
              msg |-> "content must be one of string, integer or boolean"]
        ELSE IF default # None
        THEN IF required
             THEN [ok |-> FALSE, exc |-> "ValueError",
                   msg |-> "parameter cannot both be required and have a default value"]
             ELSE LET r == validate_coerce(p, default[1])
                  IN  IF r.ok THEN [ok |-> TRUE, val |-> p]
                      ELSE [ok |-> FALSE, exc |-> r.exc,
                            msg |-> "invalid literal for int()"]
        ELSE [ok |-> TRUE, val |-> p]

\* A lookup that treats every parameter as optional.
Parameter_value_optional(p, reskey) ==
    IF p.name[1] \in DOMAIN reskey
    THEN validate_coerce(p, reskey[p.name[1]])
    ELSE [ok |-> TRUE,
          val |-> IF p.default = None THEN NoneType ELSE PyStr(p.default[1])]

\* Parameter._value against ocf.env.reskey.
Parameter_value(p, reskey) ==
    IF p.name[1] \in DOMAIN reskey
    THEN validate_coerce(p, reskey[p.name[1]])
    ELSE IF p.required THEN [ok |-> FALSE, exc |-> "ValueError"]
    ELSE [ok |-> TRUE,
          val |-> IF p.default = None THEN NoneType ELSE PyStr(p.default[1])]

\* Parameter.validate
Parameter_validate(p, reskey) == Parameter_value(p, reskey)

\* Parameter.contribute_to_class(ra, name)
Parameter_contribute_to_class(p, w, ra, name) ==
    LET ref == getattr(w.types, ra, "_PARAMETERS").val.id
        bound == [p EXCEPT !.name = Some(name)]
        w1 == [w EXCEPT !.heap[ref] = DictSet(@, name, bound)]
    IN  setattr(w1, ra, name, bound)

(***************************************************************************)
(* class Action                                                            *)
(***************************************************************************)
Function(name, def) == [kind |-> "function", name |-> name, def |-> def]

\* Action.__init__; the attribute action is set by __call__.
Action(name, timeout, interval, start_delay, depth, role) ==
    [kind |-> "Action", name |-> name, timeout |-> timeout,
     interval |-> interval, start_delay |-> start_delay, depth |-> depth,
     role |-> role, action |-> NoneType]

\* A decorator that does not compare the names.
Action_call_unchecked(a, action) ==
    [ok |-> TRUE,
     val |-> [a EXCEPT !.action = action,
                       !.name = IF a.name # None THEN a.name
                                ELSE IF action.kind = "Action" THEN action.name
                                ELSE Some(action.name)]]

\* Action.__call__(action): the decorator applied to a function or to
\* another Action; the decorated Action, or the AssertionError raised.
Action_call(a, action) ==
    LET named == IF a.name # None THEN a.name
                 ELSE IF action.kind = "Action" THEN action.name
                 ELSE Some(action.name)
        a1 == [a EXCEPT !.action = action, !.name = named]
    IN  IF action.kind = "Action" /\ a1.name # action.name
        THEN [ok |-> FALSE, exc |-> "AssertionError"]
        ELSE [ok |-> TRUE, val |-> a1]

\* A lookup that removes one decorator only.
Action_action_method_once(a) == a.action

\* Action.action_method: the function at the end of the chain.
RECURSIVE Action_action_method(_)
Action_action_method(a) ==
    IF a.action.kind = "Action" THEN Action_action_method(a.action)
    ELSE a.action

\* Action.contribute_to_class(ra, name)
Action_contribute_to_class(a, w, ra, name) ==
    LET ref == getattr(w.types, ra, "_ACTIONS").val.id
        w1 == [w EXCEPT !.heap[ref] = DictSet(@, a.name[1], a)]
    IN  setattr(w1, ra, name, Action_action_method(a))

(***************************************************************************)
(* class ResourceAgentType                                                 *)
(***************************************************************************)
\* ResourceAgentType.add_to_class(name, value)
add_to_class(w, cls, name, value) ==
    IF value.kind = "Parameter"
    THEN Parameter_contribute_to_class(value, w, cls, name)
    ELSE IF value.kind = "Action"
    THEN Action_contribute_to_class(value, w, cls, name)
    ELSE setattr(w, cls, name, value)

\* The loop "for name, value in attrs.items()" of __new__.
RECURSIVE add_all_to_class(_, _, _)
add_all_to_class(w, cls, attrs) ==
    IF attrs = <<>> THEN w
    ELSE add_all_to_class(add_to_class(w, cls, attrs[1][1], attrs[1][2]),
                          cls, Tail(attrs))

\* A class that starts from an empty registry instead of its parent's.
inherit_registry_fresh(w, cls, base, attr) ==
    add_to_class([w EXCEPT !.heap = Append(@, <<>>)], cls, attr,
                 [kind |-> "dict", id |-> Len(w.heap) + 1])

\* add_to_class(attr, bases[0].<attr>), or add_to_class(attr, {}) when
\* the base has no such attribute.
inherit_registry(w, cls, base, attr) ==
    LET r == getattr(w.types, base, attr)
    IN  IF r.ok THEN add_to_class(w, cls, attr, r.val)
        ELSE add_to_class([w EXCEPT !.heap = Append(@, <<>>)], cls, attr,
                          [kind |-> "dict", id |-> Len(w.heap) + 1])

\* ResourceAgentType.__new__(cls, name, bases, attrs): attrs is the class
\* body as a sequence of <<name, value>> in the order attrs.items() yields.
\* type.__new__ gives every class its own __doc__, None without docstring.
ResourceAgentType_new(w, base, attrs) ==
    LET cls == Len(w.types) + 1
        w0 == [w EXCEPT !.types =
                 Append(@, [base |-> base, dict |-> ("__doc__" :> NoneType)])]
        w1 == inherit_registry(w0, cls, base, "_ACTIONS")
        w2 == inherit_registry(w1, cls, base, "_PARAMETERS")
    IN  add_all_to_class(w2, cls, attrs)

(***************************************************************************)
(* Class bodies                                                            *)
(***************************************************************************)
Docstring(lines) == [kind |-> "str", lines |-> lines]

\* A decorator application that succeeds.
Decorate(a, action) == Action_call(a, action).val

\* The body of class ResourceAgent: its docstring and the two actions it
\* declares.  The methods that are not declarations (main, __init__,
\* execute, ...) are the actions of this specification.
ResourceAgentBody ==
    << <<"__doc__", Docstring(<<"Base class for OCF Resource Agent implementations.",
                                "Implementors should create a subclass">>)>>,
       <<"meta_data",
         Decorate(Action(Some("meta-data"), 5, None, None, None, None),
                  Function("meta_data", 1))>>,
       <<"validate_all",
         Decorate(Action(Some("validate-all"), 5, None, None, None, None),
                  Function("validate_all", 1))>> >>

\* The declarations of class TestAgent (testagent.py): a required string
\* parameter, an optional one, start, stop and a monitor declared by three
\* chained decorators.
TestAgentDecls(cls) ==
    << <<"hba_type",
         Parameter("Backing store type", "This attribute is required",
                   FALSE, TRUE, "string", None).val>>,
       <<"frobnicate",
         Parameter("Path to frobnicate binary", "The full path",
                   FALSE, FALSE, "string", None).val>>,
       <<"start",
         Decorate(Action(None, 20, None, None, None, None),
                  Function("start", cls))>>,
       <<"stop",
         Decorate(Action(None, 20, None, None, None, None),
                  Function("stop", cls))>>,
       <<"monitor",
         Decorate(Action(None, 20, Some(10), None, Some(0), None),
           Decorate(Action(None, 20, Some(20), None, Some(0), Some("Slave")),
             Decorate(Action(None, 20, Some(10), None, Some(0), Some("Master")),
                      Function("monitor", cls))))>> >>

\* A subclass that declares nothing.
EmptyDecls(cls) == <<>>

\* A subclass that declares hba_type again, as an optional integer,
\* declares start, and redefines validate_all as a plain method.
OverrideDecls(cls) ==
    << <<"hba_type",
         Parameter("Backing store number", "An integer",
                   TRUE, FALSE, "integer", None).val>>,
       <<"start",
         Decorate(Action(None, 40, None, None, None, None),
                  Function("start", cls))>>,
       <<"validate_all", Function("validate_all", cls)>> >>

\* A subclass that declares an integer parameter with a default, promote
\* by two chained decorators, and monitor again by a single decorator.
PromoteDecls(cls) ==
    << <<"frobnicate",
         Parameter("Frobnication level", "An integer level",
                   FALSE, FALSE, "integer", Some(<<"7">>)).val>>,
       <<"promote",
         Decorate(Action(None, 20, None, None, None, None),
           Decorate(Action(None, 30, None, Some(5), None, None),
                    Function("promote", cls)))>>,
       <<"monitor",
         Decorate(Action(None, 30, Some(60), None, None, None),
                  Function("monitor", cls))>> >>

\* The class bodies a script may contain: one of the declaration lists,
\* with or without a docstring.
ClassBodies(cls) ==
    LET decls == {TestAgentDecls(cls), EmptyDecls(cls), OverrideDecls(cls),
                  PromoteDecls(cls)}
    IN  decls \cup
        { <<<<"__doc__", Docstring(<<"Python-OCF Test Agent",
                                     "The backstore resource">>)>>>> \o d :
          d \in decls }

\* The inputs of one process: the action argument and the OCF_RESKEY_
\* variables.
ParamNames == {"hba_type", "frobnicate"}

RawValues == { <<"4", "2">>, <<"a", "b", "c">> }

ActionArgs ==
    {None} \cup
    { Some(a) : a \in {"start", "monitor", "promote", "meta-data",
                       "validate-all", "bogus"} }

Reskeys == UNION { [D -> RawValues] : D \in SUBSET ParamNames }

(***************************************************************************)
(* Metadata                                                                *)
(***************************************************************************)
\* Parameter.append_xml: the <parameter> node.
Parameter_append_xml(p) ==
    [tag |-> "parameter", name |-> p.name[1],
     unique |-> IF p.unique THEN "1" ELSE "0",
     required |-> IF p.required THEN Some("1") ELSE None,
     longdesc |-> p.longdesc, shortdesc |-> p.shortdesc,
     content |-> p.content,
     default |-> IF p.default # None /\ ~p.required THEN p.default ELSE None]

\* A rendering of the outermost decorator only.
Action_append_xml_outermost(a) ==
    <<[tag |-> "action", name |-> a.name[1], timeout |-> a.timeout,
       interval |-> a.interval, start_delay |-> a.start_delay,
       depth |-> a.depth, role |-> a.role]>>

\* Action.append_xml: the <action> nodes appended for one registry entry.
RECURSIVE Action_append_xml(_)
Action_append_xml(a) ==
    <<[tag |-> "action", name |-> a.name[1], timeout |-> a.timeout,
       interval |-> a.interval, start_delay |-> a.start_delay,
       depth |-> a.depth, role |-> a.role]>>
    \o (IF a.action.kind = "Action" THEN Action_append_xml(a.action)
        ELSE <<>>)

RECURSIVE Flatten(_)
Flatten(ss) == IF ss = <<>> THEN <<>> ELSE Head(ss) \o Flatten(Tail(ss))

\* ResourceAgent.shortdesc and ResourceAgent.longdesc read the docstring of
\* the instance's own class; without one, None.strip() raises.
shortdesc(ts, cls) ==
    LET doc == ts[cls].dict["__doc__"]
    IN  IF doc.kind = "NoneType" THEN [ok |-> FALSE, exc |-> "AttributeError"]
        ELSE [ok |-> TRUE, val |-> Head(doc.lines)]

longdesc(ts, cls) ==
    LET doc == ts[cls].dict["__doc__"]
    IN  IF doc.kind = "NoneType" THEN [ok |-> FALSE, exc |-> "AttributeError"]
        ELSE [ok |-> TRUE, val |-> Tail(doc.lines)]

\* A handler that prints the head of the document before it reads the
\* description.
meta_data_header_first(ts, hp, cls) ==
    LET ld == longdesc(ts, cls)
    IN  IF ~ld.ok
        THEN [raised |-> TRUE, exc |-> ld.exc,
              out |-> <<[tag |-> "resource-agent", version |-> "1.0"]>>]
        ELSE [raised |-> FALSE, ret |-> NoneType,
              out |-> <<[tag |-> "resource-agent", version |-> "1.0"]>>]

\* ResourceAgent.meta_data: the document printed, or the exception raised
\* before anything is printed.
meta_data(ts, hp, cls) ==
    LET ld == longdesc(ts, cls)
        sd == shortdesc(ts, cls)
        ps == DictValues(cls_PARAMETERS(ts, hp, cls))
        as == DictValues(cls_ACTIONS(ts, hp, cls))
    IN  IF ~ld.ok THEN [raised |-> TRUE, exc |-> ld.exc, out |-> <<>>]
        ELSE IF ~sd.ok THEN [raised |-> TRUE, exc |-> sd.exc, out |-> <<>>]
        ELSE [raised |-> FALSE, ret |-> NoneType,
              out |-> <<[tag |-> "resource-agent", version |-> "1.0",
                         longdesc |-> ld.val, shortdesc |-> sd.val,
                         parameters |->
                           [i \in 1..Len(ps) |-> Parameter_append_xml(ps[i])],
                         actions |->
                           Flatten([i \in 1..Len(as) |->
                                      Action_append_xml(as[i])])]>>]

\* ResourceAgent.validate_all
validate_all == [raised |-> FALSE, ret |-> PyInt(OCF_SUCCESS), out |-> <<>>]

\* What a handler written by the agent's author may do: return one of the
\* exit codes, return nothing, or raise.
HandlerOutcomes ==
    { [raised |-> FALSE, ret |-> PyInt(n), out |-> <<>>] :
        n \in OCF_SUCCESS..OCF_FAILED_MASTER }
    \cup { [raised |-> FALSE, ret |-> NoneType, out |-> <<>>],
           [raised |-> TRUE, exc |-> "Exception", out |-> <<>>] }

\* The outcomes of calling the bound method f on an instance of cls.
Call(ts, hp, cls, f) ==
    IF f = Function("meta_data", 1) THEN {meta_data(ts, hp, cls)}
    ELSE IF f = Function("validate_all", 1) THEN {validate_all}
    ELSE HandlerOutcomes

\* An exit that drops the handler's status.
sys_exit_zero(r) == 0

\* The exit status sys.exit(r) gives the process: 0 for None, r for an int.
sys_exit(r) == IF r.kind = "NoneType" THEN 0 ELSE r.v

(***************************************************************************)
(* class ResourceAgent                                                     *)
(***************************************************************************)
required_actions_no_monitor == {"start", "stop", "meta-data"}

required_actions == {"start", "stop", "monitor", "meta-data"}

\* ResourceAgent.__init__: the required actions missing from _ACTIONS.
missing_actions(ts, hp, cls) ==
    required_actions \ DictKeys(cls_ACTIONS(ts, hp, cls))

\* ResourceAgent._print_usage
print_usage(ts, hp, cls) ==
    [usage |-> sorted(DictKeys(cls_ACTIONS(ts, hp, cls)))]

\* An entry point that swallows the exception and reports success.
Uncaught_swallowed(e) ==
    /\ exc' = Some(e)
    /\ exit_code' = Some(OCF_SUCCESS)
    /\ pc' = "exited"

\* The exception ends the process: Python prints the traceback and exits
\* with status 1.
Uncaught(e) ==
    /\ exc' = Some(e)
    /\ exit_code' = Some(1)
    /\ pc' = "exited"

\* A sys.exit that returns to its caller.
Exit_returns(code) ==
    /\ exc' = None
    /\ exit_code' = None
    /\ pc' = "returned"

\* sys.exit(code)
Exit(code) ==
    /\ exc' = None
    /\ exit_code' = Some(code)
    /\ pc' = "exited"

\* The state after "import ocf": class ResourceAgent exists.
Init ==
    LET w == ResourceAgentType_new([types |-> <<>>, heap |-> <<>>], 0,
                                   ResourceAgentBody)
    IN  /\ types = w.types
        /\ heap = w.heap
        /\ pc = "import"
        /\ self = 0
        /\ env = [action |-> None, reskey |-> <<>>]
        /\ action_method = None
        /\ called = <<>>
        /\ validated = <<>>
        /\ stdout = <<>>
        /\ stderr = <<>>
        /\ ret = None
        /\ exc = None
        /\ exit_code = None
        /\ decl = NoneType
        /\ result = None

\* A class statement "class X(B): ..." of the agent script, B a class
\* derived from ResourceAgent or ResourceAgent itself.
DefineType ==
    /\ pc = "import"
    /\ Len(types) < 1 + MaxUserTypes
    /\ \E base \in 1..Len(types) :
         \E attrs \in ClassBodies(Len(types) + 1) :
           LET w == ResourceAgentType_new([types |-> types, heap |-> heap],
                                          base, attrs)
           IN  /\ types' = w.types
               /\ heap' = w.heap
    /\ UNCHANGED <<pc, self, env, action_method, called, validated, stdout,
                   stderr, ret, exc, exit_code, decl, result>>

\* ResourceAgent.main up to the call of execute(): the process was started
\* with action argument a and parameters rk, and cls() runs __init__.
main ==
    /\ pc = "import"
    /\ \E cls \in 1..Len(types), a \in ActionArgs, rk \in Reskeys :
         /\ self' = cls
         /\ env' = [action |-> a, reskey |-> rk]
         /\ LET missing == missing_actions(types, heap, cls)
            IN  IF missing # {}
                THEN Uncaught([type |-> "NotImplementedError",
                               act |-> sorted(missing)])
                ELSE /\ pc' = "execute"
                     /\ UNCHANGED <<exc, exit_code>>
    /\ UNCHANGED <<types, heap, action_method, called, validated, stdout,
                   stderr, ret, decl, result>>

\* A dispatcher that also skips the checks for validate-all.
needs_validation_lenient(action) == action \notin {"meta-data", "validate-all"}

\* A dispatcher that carries out the checks for meta-data too.
needs_validation_all(action) == TRUE

\* The pre-requisite checks are carried out for all actions except
\* meta-data.
needs_validation(action) == action # "meta-data"

\* ResourceAgent.execute, from its start to the lookup of the bound method.
execute ==
    /\ pc = "execute"
    /\ LET acts == cls_ACTIONS(types, heap, self)
           usage == print_usage(types, heap, self)
       IN  IF env.action = None
           THEN LET sd == shortdesc(types, self)
                    ld == longdesc(types, self)
                IN  /\ stderr' = Append(stderr, usage)
                    /\ IF ~sd.ok
                       THEN /\ Uncaught([type |-> sd.exc])
                            /\ UNCHANGED stdout
                       ELSE /\ stdout' = stdout \o <<sd.val, ld.val>>
                            /\ Exit(OCF_ERR_ARGS)
                    /\ UNCHANGED action_method
           ELSE IF env.action[1] \notin DictKeys(acts)
           THEN /\ stderr' = stderr \o <<[error |-> "action not supported"],
                                         usage>>
                /\ Exit(OCF_ERR_UNIMPLEMENTED)
                /\ UNCHANGED <<stdout, action_method>>
           ELSE LET action == DictGet(acts, env.action[1])
                    m == getattr(types, self,
                                 Action_action_method(action).name)
                IN  /\ IF ~m.ok
                       THEN /\ Uncaught([type |-> m.exc])
                            /\ UNCHANGED action_method
                       ELSE /\ action_method' = Some(m.val)
                            /\ pc' = IF needs_validation(env.action[1])
                                     THEN "validate" ELSE "invoke"
                            /\ UNCHANGED <<exc, exit_code>>
                    /\ UNCHANGED <<stdout, stderr>>
    /\ UNCHANGED <<types, heap, self, env, called, validated, ret, decl,
                   result>>

\* What the evaluation of e.message gives in the except clause of
\* _validate_parameters: the message under Python 2, AttributeError under
\* Python 3, where exceptions have no attribute message.
e_message == {[ok |-> TRUE], [ok |-> FALSE, exc |-> "AttributeError"]}

\* The index of the first parameter whose validate() raises, 0 if none.
first_invalid(ps, reskey) ==
    LET bad == {i \in 1..Len(ps) : ~Parameter_validate(ps[i], reskey).ok}
    IN  IF bad = {} THEN 0 ELSE CHOOSE i \in bad : \A j \in bad : i <= j

\* ResourceAgent._validate_parameters, called by execute for every action
\* but meta-data.
validate_parameters ==
    /\ pc = "validate"
    /\ LET ps == DictValues(cls_PARAMETERS(types, heap, self))
           k == first_invalid(ps, env.reskey)
       IN  IF k = 0
           THEN /\ validated' = [i \in 1..Len(ps) |-> ps[i].name[1]]
                /\ pc' = "invoke"
                /\ UNCHANGED <<stderr, exc, exit_code>>
           ELSE /\ validated' = [i \in 1..(k - 1) |-> ps[i].name[1]]
                /\ \E m \in e_message :
                     IF m.ok
                     THEN /\ stderr' = Append(stderr,
                                         [error |-> ps[k].name[1]])
                          /\ Exit(OCF_ERR_CONFIGURED)
                     ELSE /\ Uncaught([type |-> m.exc])
                          /\ UNCHANGED stderr
    /\ UNCHANGED <<types, heap, self, env, action_method, called, stdout,
                   ret, decl, result>>

\* The end of ResourceAgent.execute: ret = action_method(); sys.exit(ret)
invoke ==
    /\ pc = "invoke"
    /\ called' = Append(called, action_method[1])
    /\ \E o \in Call(types, heap, self, action_method[1]) :
         /\ stdout' = stdout \o o.out
         /\ IF o.raised
            THEN /\ Uncaught([type |-> o.exc])
                 /\ UNCHANGED ret
            ELSE /\ ret' = Some(o.ret)
                 /\ Exit(sys_exit(o.ret))
    /\ UNCHANGED <<types, heap, self, env, action_method, validated, stderr,
                   decl, result>>

Next == DefineType \/ main \/ execute \/ validate_parameters \/ invoke

Spec == Init /\ [][Next]_vars

\* One process runs main() to its end: the statement a step stands for is
\* executed once the process has reached it.
FairSpec ==
    /\ Spec
    /\ WF_vars(execute)
    /\ WF_vars(validate_parameters)
    /\ WF_vars(invoke)

(***************************************************************************)
(* One declaration of a class body, followed from the expression that      *)
(* builds it to its use: DeclSpec evaluates a Parameter(...) call or a     *)
(* stack of @Action(...) decorators over a method, closes the class        *)
(* statement around it, and then reads the parameter's value or renders    *)
(* the action.                                                             *)
(***************************************************************************)
\* Number of decorators stacked on one method.
MaxLinks == 3

\* The keyword arguments of the decorators of testagent.py and of the class
\* documentation, and a pair with a start delay.
Hints ==
    { [timeout |-> 20, interval |-> None, start_delay |-> None,
       depth |-> None, role |-> None],
      [timeout |-> 20, interval |-> Some(10), start_delay |-> None,
       depth |-> Some(0), role |-> None],
      [timeout |-> 20, interval |-> Some(20), start_delay |-> None,
       depth |-> Some(0), role |-> Some("Slave")],
      [timeout |-> 20, interval |-> Some(10), start_delay |-> None,
       depth |-> Some(0), role |-> Some("Master")],
      [timeout |-> 40, interval |-> None, start_delay |-> Some(5),
       depth |-> None, role |-> None] }

\* The name argument of a decorator.
LinkNames == {None, Some("monitor"), Some("start")}

MethodNames == {"monitor", "start"}

\* The content argument of Parameter(...); "float" is not a content type.
Contents == {"string", "integer", "boolean", "float"}

\* Raw strings: the eight true tokens, other spellings of them, a number,
\* a word and the empty string.
RawInputs ==
    TrueTokens \cup
    { <<>>, <<"n", "o">>, <<"T", "r", "u", "e">>, <<"O", "n">>,
      <<"4", "2">>, <<"a", "b", "c">> }

\* The default argument of Parameter(...).
Defaults ==
    {None} \cup {Some(r) : r \in {<<"4", "2">>, <<"a", "b", "c">>, <<"o", "n">>}}

\* ocf.env.reskey with at most one parameter set.
DeclReskeys == {<<>>} \cup {n :> r : n \in ParamNames, r \in RawInputs}

\* The number of Action objects chained below and including a.
RECURSIVE ChainLen(_)
ChainLen(a) == IF a.kind = "Action" THEN 1 + ChainLen(a.action) ELSE 0

\* The state after "import ocf", at the start of a class body.
DeclInit ==
    LET w == ResourceAgentType_new([types |-> <<>>, heap |-> <<>>], 0,
                                   ResourceAgentBody)
    IN  /\ types = w.types
        /\ heap = w.heap
        /\ pc = "body"
        /\ self = 0
        /\ env = [action |-> None, reskey |-> <<>>]
        /\ action_method = None
        /\ called = <<>>
        /\ validated = <<>>
        /\ stdout = <<>>
        /\ stderr = <<>>
        /\ ret = None
        /\ exc = None
        /\ exit_code = None
        /\ decl = NoneType
        /\ result = None

\* "def name(self): ..." in the class body.
def_method ==
    /\ pc = "body"
    /\ decl = NoneType
    /\ \E name \in MethodNames : decl' = Function(name, Len(types) + 1)
    /\ UNCHANGED <<types, heap, pc, self, env, action_method, called,
                   validated, stdout, stderr, ret, exc, exit_code, result>>

\* "@Action(name=..., timeout=..., ...)" above the method or above another
\* decorator: Action.__init__, then Action.__call__ on what is below.
decorate ==
    /\ pc = "body"
    /\ decl.kind \in {"function", "Action"}
    /\ ChainLen(decl) < MaxLinks
    /\ \E name \in LinkNames, h \in Hints :
         LET r == Action_call(Action(name, h.timeout, h.interval,
                                     h.start_delay, h.depth, h.role), decl)
         IN  IF r.ok
             THEN /\ decl' = r.val
                  /\ UNCHANGED <<pc, exc, exit_code>>
             ELSE /\ Uncaught([type |-> r.exc])
                  /\ UNCHANGED decl
    /\ UNCHANGED <<types, heap, self, env, action_method, called, validated,
                   stdout, stderr, ret, result>>

\* "name = Parameter(shortdesc, longdesc, required=..., content=...,
\* default=...)" in the class body: Parameter.__init__.
new_parameter ==
    /\ pc = "body"
    /\ decl = NoneType
    /\ \E unique \in BOOLEAN, required \in BOOLEAN, content \in Contents,
          default \in Defaults :
         LET r == Parameter("Backing store type",
                            "This attribute is required", unique, required,
                            content, default)
         IN  IF r.ok
             THEN /\ decl' = r.val
                  /\ UNCHANGED <<pc, exc, exit_code>>
             ELSE /\ Uncaught([type |-> r.exc, msg |-> r.msg])
                  /\ UNCHANGED decl
    /\ UNCHANGED <<types, heap, self, env, action_method, called, validated,
                   stdout, stderr, ret, result>>

\* The end of the class statement: ResourceAgentType.__new__ with the one
\* declaration, a parameter under one of the names or an action under its
\* method's name.
end_class ==
    /\ pc = "body"
    /\ decl.kind \in {"Parameter", "Action"}
    /\ \E name \in IF decl.kind = "Parameter" THEN ParamNames
                   ELSE {Action_action_method(decl).name} :
         LET w == ResourceAgentType_new([types |-> types, heap |-> heap], 1,
                                        <<<<name, decl>>>>)
         IN  /\ types' = w.types
             /\ heap' = w.heap
    /\ pc' = "class"
    /\ UNCHANGED <<self, env, action_method, called, validated, stdout,
                   stderr, ret, exc, exit_code, decl, result>>

\* Reading the parameter in a process started with the reskey rk:
\* Parameter.__get__, which returns self._value.
Parameter_get ==
    /\ pc = "class"
    /\ decl.kind = "Parameter"
    /\ \E rk \in DeclReskeys :
         LET ps == DictValues(cls_PARAMETERS(types, heap, Len(types)))
         IN  /\ env' = [action |-> None, reskey |-> rk]
             /\ result' = Some(Parameter_value(ps[Len(ps)], rk))
    /\ pc' = "done"
    /\ UNCHANGED <<types, heap, self, action_method, called, validated,
                   stdout, stderr, ret, exc, exit_code, decl>>

\* Rendering the registered action into an <actions> node: the children
\* the node has after action.append_xml(actions).
actions_append_xml ==
    /\ pc = "class"
    /\ decl.kind = "Action"
    /\ LET as == DictValues(cls_ACTIONS(types, heap, Len(types)))
       IN  result' = Some(Action_append_xml(as[Len(as)]))
    /\ pc' = "done"
    /\ UNCHANGED <<types, heap, self, env, action_method, called, validated,
                   stdout, stderr, ret, exc, exit_code, decl>>

DeclNext ==
    \/ def_method
    \/ decorate
    \/ new_parameter
    \/ end_class
    \/ Parameter_get
    \/ actions_append_xml

DeclSpec == DeclInit /\ [][DeclNext]_vars

(***************************************************************************)
(* State functions used by the properties                                  *)
(***************************************************************************)
\* The registries of the running instance's class.
Actions == cls_ACTIONS(types, heap, self)

Parameters == DictValues(cls_PARAMETERS(types, heap, self))

\* __init__ raised its NotImplementedError.
Incomplete == exc # None /\ exc[1].type = "NotImplementedError"

\* cls() returned: main got past __init__.
Constructed == self # 0 /\ ~Incomplete

\* The class of the instance has a docstring.
HasDescription == types[self].dict["__doc__"].kind = "str"

\* A raw value int() rejects.
NonNumeric(raw) ==
    \/ raw = <<>>
    \/ \E i \in 1..Len(raw) : raw[i] \notin Digits

\* The registered parameter p does not resolve against the environment: it
\* is required and absent, or it is an integer with a non-numeric raw value.
FailsToResolve(p) ==
    \/ p.required /\ p.name[1] \notin DOMAIN env.reskey
    \/ /\ p.content = "integer"
       /\ p.name[1] \in DOMAIN env.reskey
       /\ NonNumeric(env.reskey[p.name[1]])

SomeParameterFails == \E i \in 1..Len(Parameters) : FailsToResolve(Parameters[i])

\* A registered action other than meta-data was requested of a constructed
\* instance.
DispatchedChecked ==
    /\ Constructed
    /\ env.action # None
    /\ env.action[1] \in DictKeys(Actions)
    /\ env.action[1] # "meta-data"

\* The i-th link of a chain of decorators, the outermost being the first.
RECURSIVE Link(_, _)
Link(a, i) == IF i = 1 THEN a ELSE Link(a.action, i - 1)

\* What the innermost link of a chain decorates.
Terminal(a) == Link(a, ChainLen(a)).action

\* The class in whose body instances of cls find the attribute name, 0 if
\* there is none.
RECURSIVE Owner(_, _, _)
Owner(ts, cls, name) ==
    IF cls = 0 THEN 0
    ELSE IF name \in DOMAIN ts[cls].dict THEN cls
    ELSE Owner(ts, ts[cls].base, name)

(***************************************************************************)
(* Properties                                                              *)
(***************************************************************************)
\* C1: for every dispatch of a registered action other than meta-data, if a
\* registered parameter fails to resolve then no handler is ever invoked
\* and the process exits with OCF_ERR_CONFIGURED (6); a handler is invoked
\* only when every registered parameter resolved.
C1_ValidationBeforeHandler ==
    DispatchedChecked /\ SomeParameterFails =>
        /\ called = <<>>
        /\ pc = "exited" => exit_code = Some(OCF_ERR_CONFIGURED)

\* C2: a class statement never changes the _ACTIONS or _PARAMETERS registry
\* of a class that already exists (the parent and the siblings of the new
\* class).
C2_RegistryIsolation ==
    [][\A t \in 1..Len(types) :
         /\ cls_ACTIONS(types', heap', t) = cls_ACTIONS(types, heap, t)
         /\ cls_PARAMETERS(types', heap', t) = cls_PARAMETERS(types, heap, t)
      ]_vars

\* The declarations of kind k in a class body, as <<registry key, spec>>.
RECURSIVE Declared(_, _)
Declared(attrs, k) ==
    IF attrs = <<>> THEN <<>>
    ELSE LET name == attrs[1][1]
             v == attrs[1][2]
         IN  (IF v.kind = k
              THEN <<[key |-> IF k = "Action" THEN v.name[1] ELSE name,
                      val |-> IF k = "Action" THEN v
                              ELSE [v EXCEPT !.name = Some(name)]]>>
              ELSE <<>>) \o Declared(Tail(attrs), k)

\* Registry reg is the parent's registry par with the declarations own
\* applied: the parent's entries in the parent's order, same-named ones
\* replaced, and the new names after them.
Inherits(reg, par, own) ==
    /\ DictKeys(reg) = DictKeys(par) \cup DictKeys(own)
    /\ Len(reg) = Cardinality(DictKeys(reg))
    /\ \A i \in 1..Len(par) : reg[i].key = par[i].key
    /\ \A i \in 1..Len(reg) :
         IF reg[i].key \in DictKeys(own)
         THEN \E j \in 1..Len(own) :
                /\ own[j] = reg[i]
                /\ \A k \in (j + 1)..Len(own) : own[k].key # own[j].key
         ELSE reg[i].val = DictGet(par, reg[i].key)
    /\ own = <<>> => reg = par

\* C3: a class statement gives the new class registries that are its
\* parent's at that time with its own declarations added, same-named
\* entries replaced by its own (equal to the parent's, in the same order,
\* when it declares nothing); hence every class has meta-data and
\* validate-all registered.
C3_Inheritance ==
    /\ \A t \in 1..Len(types) :
         {"meta-data", "validate-all"} \subseteq
             DictKeys(cls_ACTIONS(types, heap, t))
    /\ pc = "import" =>
         \A base \in 1..Len(types) :
           \A attrs \in ClassBodies(Len(types) + 1) :
             LET w == ResourceAgentType_new([types |-> types, heap |-> heap],
                                            base, attrs)
                 new == Len(types) + 1
             IN  /\ Inherits(cls_ACTIONS(w.types, w.heap, new),
                             cls_ACTIONS(types, heap, base),
                             Declared(attrs, "Action"))
                 /\ Inherits(cls_PARAMETERS(w.types, w.heap, new),
                             cls_PARAMETERS(types, heap, base),
                             Declared(attrs, "Parameter"))

\* A class that declares hba_type again exists, derived from a class that
\* declared it as a string.
C3_Witness ==
    \E t \in 2..Len(types) :
      LET b == types[t].base
      IN  /\ b >= 2
          /\ "hba_type" \in DOMAIN types[b].dict
          /\ types[b].dict["hba_type"].content = "string"
          /\ "hba_type" \in DOMAIN types[t].dict
          /\ DictGet(cls_PARAMETERS(types, heap, t), "hba_type").content
                 = "integer"

\* C4 (as claimed): dispatch with no action argument always exits with
\* OCF_ERR_ARGS (2), invoking no handler and validating no parameter,
\* whatever the parameter map and the description text are.
C4_NoActionAlwaysErrArgs ==
    Constructed /\ env.action = None =>
        /\ called = <<>>
        /\ validated = <<>>
        /\ pc = "exited" => exit_code = Some(2)

\* C4 (amended): dispatch with no action argument invokes no handler and
\* validates no parameter, and when the class has description text (a
\* docstring) it exits with OCF_ERR_ARGS (2) whatever the parameter map
\* contains.
C4_NoActionArgument ==
    Constructed /\ env.action = None =>
        /\ called = <<>>
        /\ validated = <<>>
        /\ pc \notin {"validate", "invoke"}
        /\ pc = "exited" /\ HasDescription => exit_code = Some(2)

\* The dispatcher exited on a missing action argument although a
\* registered parameter would not resolve.
C4_Witness ==
    /\ pc = "exited"
    /\ Constructed
    /\ env.action = None
    /\ HasDescription
    /\ SomeParameterFails
    /\ exit_code = Some(2)

\* C5: dispatch with an action name that is not a key of _ACTIONS exits
\* with OCF_ERR_UNIMPLEMENTED (3) without invoking a handler and before any
\* parameter validation, also when a required parameter is missing.
C5_UnknownAction ==
    Constructed /\ env.action # None /\ env.action[1] \notin DictKeys(Actions)
    =>  /\ called = <<>>
        /\ validated = <<>>
        /\ pc \notin {"validate", "invoke"}
        /\ pc = "exited" => exit_code = Some(3)

\* An unregistered action was refused while a registered parameter would
\* not resolve.
C5_Witness ==
    /\ pc = "exited"
    /\ Constructed
    /\ env.action # None
    /\ env.action[1] \notin DictKeys(Actions)
    /\ \E i \in 1..Len(Parameters) :
         Parameters[i].required /\ Parameters[i].name[1] \notin DOMAIN env.reskey
    /\ exit_code = Some(3)

\* The position of a name in Python's string order.
Rank(n) == CHOOSE i \in 1..Len(NameOrder) : NameOrder[i] = n

\* C6: creating an instance raises the incomplete-definition error exactly
\* when _ACTIONS lacks one of start, stop, monitor, meta-data; the error
\* names exactly the missing actions, sorted; and nothing of execute() has
\* run for such a class.
C6_Completeness ==
    self # 0 =>
        LET missing == {"start", "stop", "monitor", "meta-data"}
                           \ DictKeys(Actions)
        IN  /\ Incomplete <=> missing # {}
            /\ Incomplete =>
                 LET act == exc[1].act
                 IN  /\ {act[i] : i \in 1..Len(act)} = missing
                     /\ \A i, j \in 1..Len(act) :
                          i < j => Rank(act[i]) < Rank(act[j])
                     /\ pc = "exited"
                     /\ action_method = None
                     /\ called = <<>>
                     /\ validated = <<>>
                     /\ stdout = <<>>
                     /\ stderr = <<>>

\* An instance of a class that lacks two required actions was refused.
C6_Witness ==
    /\ self # 0
    /\ Incomplete
    /\ exc[1].act = <<"monitor", "stop">>

\* C7: dispatching meta-data never validates parameters: its handler is
\* invoked and the exit code is not OCF_ERR_CONFIGURED even when a
\* parameter would not resolve; a handler of any other registered action,
\* validate-all included, is invoked only after every registered parameter
\* was validated.
C7_OnlyMetaDataSkipsValidation ==
    /\ Constructed /\ env.action = Some("meta-data") =>
         /\ validated = <<>>
         /\ pc # "validate"
         /\ pc = "exited" =>
              /\ Len(called) = 1
              /\ called[1].name = "meta_data"
              /\ exit_code # Some(6)
    /\ DispatchedChecked /\ called # <<>> =>
         /\ Len(validated) = Len(Parameters)
         /\ \A i \in 1..Len(Parameters) : validated[i] = Parameters[i].name[1]
         /\ ~SomeParameterFails

\* meta-data ran its handler although a required parameter was absent.
C7_Witness ==
    /\ pc = "exited"
    /\ env.action = Some("meta-data")
    /\ \E i \in 1..Len(Parameters) :
         Parameters[i].required /\ Parameters[i].name[1] \notin DOMAIN env.reskey
    /\ Len(called) = 1
    /\ validated = <<>>

\* C8: when the handler of a dispatched action returns one of the status
\* codes 0..9, the process exit code is that status.
C8_ExitCodeIsHandlerStatus ==
    pc = "exited" /\ ret # None /\ ret[1].kind = "int" =>
        /\ ret[1].v \in 0..9
        /\ exit_code = Some(ret[1].v)
        /\ exc = None

\* A handler returned OCF_FAILED_MASTER and the process exited with 9.
C8_Witness ==
    /\ pc = "exited"
    /\ DispatchedChecked
    /\ Len(validated) = Len(Parameters)
    /\ ret = Some(PyInt(9))
    /\ exit_code = Some(9)

\* C9: when the invoked handler raises instead of returning, the process
\* exits with the generic error code (1) and no other handler has run.
C9_HandlerException ==
    pc = "exited" /\ called # <<>> /\ ret = None =>
        /\ exc # None
        /\ exit_code = Some(1)
        /\ Len(called) = 1

\* A handler written by the agent's author raised.
C9_Witness ==
    /\ pc = "exited"
    /\ Len(called) = 1
    /\ called[1].def # 1
    /\ exc = Some([type |-> "Exception"])

\* C10: for a class that does not redefine validate_all, dispatching
\* validate-all exits with 0 exactly when every registered parameter
\* resolves, and with OCF_ERR_CONFIGURED (6) otherwise.
C10_ValidateAll ==
    /\ pc = "exited"
    /\ Constructed
    /\ env.action = Some("validate-all")
    /\ getattr(types, self, "validate_all").val = Function("validate_all", 1)
    =>  /\ exit_code = Some(0) <=> ~SomeParameterFails
        /\ SomeParameterFails => exit_code = Some(6)

C11_WitnessTwoLinks ==
    /\ pc = "exited"
    /\ Constructed
    /\ env.action = Some("promote")
    /\ "promote" \in DictKeys(Actions)
    /\ ChainLen(DictGet(Actions, "promote")) = 2
    /\ called = <<Function("promote", self)>>

\* C12: rendering a registered chain of k decorators gives exactly k
\* <action> nodes, siblings without children, all of the chain's name, in
\* the order of the decorators from the outermost to the innermost, the i-th
\* with the timeout of the i-th decorator and with the interval, start-delay,
\* depth and role that this decorator set and no other.
C12_ChainRendering ==
    pc = "done" /\ decl.kind = "Action" =>
        LET nodes == result[1]
        IN  /\ Len(nodes) = ChainLen(decl)
            /\ \A i \in 1..Len(nodes) :
                 LET l == Link(decl, i)
                 IN  /\ DOMAIN nodes[i] =
                            {"tag", "name", "timeout", "interval",
                             "start_delay", "depth", "role"}
                     /\ nodes[i].tag = "action"
                     /\ nodes[i].name = decl.name[1]
                     /\ nodes[i].timeout = l.timeout
                     /\ nodes[i].interval = l.interval
                     /\ nodes[i].start_delay = l.start_delay
                     /\ nodes[i].depth = l.depth
                     /\ nodes[i].role = l.role

\* The monitor of testagent.py was rendered: three monitor nodes, the one
\* without a role first, then Slave, then Master.
C12_Witness ==
    /\ pc = "done"
    /\ decl.kind = "Action"
    /\ Len(result[1]) = 3
    /\ \A i \in 1..3 :
         /\ result[1][i].name = "monitor"
         /\ result[1][i].timeout = 20
         /\ result[1][i].depth = Some(0)
    /\ result[1][1].interval = Some(10) /\ result[1][1].role = None
    /\ result[1][2].interval = Some(20) /\ result[1][2].role = Some("Slave")
    /\ result[1][3].interval = Some(10) /\ result[1][3].role = Some("Master")

\* The names of the links of a chain.
LinkNamesOf(a) == {Link(a, i).name : i \in 1..ChainLen(a)}

\* C13: a decorator put on a chain fails with AssertionError exactly when it
\* gives a name that differs from the chain's; without a name it takes the
\* chain's name; put on a method, it takes the name it gives or else the
\* method's identifier; so all links of every chain that was built, and of
\* every registered chain, have one name.
C13_ChainNameAgreement ==
    /\ decl.kind = "Action" => Cardinality(LinkNamesOf(decl)) = 1
    /\ \A d \in 1..Len(heap) : \A i \in 1..Len(heap[d]) :
         heap[d][i].val.kind = "Action" =>
             LinkNamesOf(heap[d][i].val) = {Some(heap[d][i].key)}
    /\ exc # None => /\ exc[1].type = "AssertionError" => decl.kind = "Action"
                     /\ pc = "exited"
    /\ decl.kind \in {"function", "Action"} =>
         \A name \in LinkNames, h \in Hints :
           LET r == Action_call(Action(name, h.timeout, h.interval,
                                       h.start_delay, h.depth, h.role), decl)
           IN  IF decl.kind = "Action" /\ name # None /\ name # decl.name
               THEN ~r.ok /\ r.exc = "AssertionError"
               ELSE /\ r.ok
                    /\ r.val.action = decl
                    /\ r.val.name = IF name # None THEN name
                                    ELSE IF decl.kind = "Action" THEN decl.name
                                    ELSE Some(decl.name)

\* A third decorator named otherwise than the two below it ended the
\* process with AssertionError.
C13_Witness ==
    /\ pc = "exited"
    /\ exc = Some([type |-> "AssertionError"])
    /\ ChainLen(decl) = 2
    /\ Terminal(decl).name = "start"
    /\ decl.name = Some("monitor")

\* The entry now took the place of the entry old under key k when the class
\* new was created: it was declared in the body of new, and old is no link
\* of it.
Replaces(ts, new, k, now, old) ==
    IF now.kind = "Action"
    THEN /\ Terminal(now).def = new
         /\ ts[new].dict[Terminal(now).name] = Terminal(now)
         /\ \A j \in 1..ChainLen(now) :
              Link(now, j) # old /\ Link(now, j).action # old
    ELSE now = ts[new].dict[k]

\* The <action> nodes of name k in a metadata document, in document order.
NodesNamed(doc, k) == SelectSeq(doc.actions, LAMBDA n : n.name = k)

\* C14: every registry holds one entry per name; a class statement that
\* declares a name already registered puts its own declaration in the place
\* of the earlier entry, without chaining the earlier one into it; and the
\* metadata shows, for every name, the links of the entry now registered
\* and nothing of an entry it replaced, and one node per parameter name.
C14_Overwrite ==
    /\ [](\A d \in 1..Len(heap) : Len(heap[d]) = Cardinality(DictKeys(heap[d])))
    /\ [][\A d \in 1..Len(heap) : \A i \in 1..Len(heap[d]) :
            LET k == heap[d][i].key
            IN  /\ k \in DictKeys(heap'[d])
                /\ DictGet(heap'[d], k) # heap[d][i].val =>
                     Replaces(types', Len(types'), k, DictGet(heap'[d], k),
                              heap[d][i].val)
         ]_vars
    /\ [](pc = "exited" /\ env.action = Some("meta-data") /\ stdout # <<>> =>
            LET doc == stdout[1]
            IN  /\ \A i \in 1..Len(Actions) :
                     LET a == Actions[i].val
                         nodes == NodesNamed(doc, Actions[i].key)
                     IN  /\ Len(nodes) = ChainLen(a)
                         /\ \A j \in 1..Len(nodes) :
                              /\ nodes[j].timeout = Link(a, j).timeout
                              /\ nodes[j].interval = Link(a, j).interval
                              /\ nodes[j].role = Link(a, j).role
                /\ Len(doc.parameters) = Len(Parameters)
                /\ \A i \in 1..Len(Parameters) :
                     /\ doc.parameters[i].name = Parameters[i].name[1]
                     /\ doc.parameters[i].content = Parameters[i].content
                     /\ \A j \in 1..Len(Parameters) :
                          doc.parameters[j].name = doc.parameters[i].name
                              => j = i)

\* The metadata of an agent shows the one monitor declared last, with its
\* timeout of 30, although a class declared monitor with three decorators
\* before; and hba_type as the integer it was declared as last.
C14_Witness ==
    /\ pc = "exited"
    /\ env.action = Some("meta-data")
    /\ stdout # <<>>
    /\ \E t \in 2..Len(types) :
         /\ {"monitor", "stop"} \subseteq DOMAIN types[t].dict
         /\ Terminal(DictGet(Actions, "monitor")).def > t
    /\ Len(NodesNamed(stdout[1], "monitor")) = 1
    /\ NodesNamed(stdout[1], "monitor")[1].timeout = 30

\* The parameter that the class statement of DeclSpec registered.
Registered ==
    LET ps == DictValues(cls_PARAMETERS(types, heap, Len(types)))
    IN  ps[Len(ps)]

\* C15: for a boolean parameter the value of a raw string is true exactly
\* for yes, true, 1, YES, TRUE, ya, on and ON, and false for every other
\* string (the empty string, no, True and On among them); the coercion never
\* fails, neither for a value of the environment nor for a default.
C15_BooleanCoercion ==
    /\ /\ pc = "done"
       /\ decl.kind = "Parameter"
       /\ decl.content = "boolean"
       /\ Registered.name[1] \in DOMAIN env.reskey
       =>  LET raw == env.reskey[Registered.name[1]]
           IN  result[1] =
                 [ok |-> TRUE,
                  val |-> [kind |-> "bool",
                           v |-> raw \in { <<"y", "e", "s">>,
                                           <<"t", "r", "u", "e">>,
                                           <<"1">>,
                                           <<"Y", "E", "S">>,
                                           <<"T", "R", "U", "E">>,
                                           <<"y", "a">>,
                                           <<"o", "n">>,
                                           <<"O", "N">> }]]
    /\ pc = "body" /\ decl = NoneType /\ exc = None =>
         \A default \in Defaults :
           Parameter("s", "l", FALSE, FALSE, "boolean", default).ok

\* A boolean parameter set to "On" was read as false.
C15_Witness ==
    /\ pc = "done"
    /\ decl.kind = "Parameter"
    /\ decl.content = "boolean"
    /\ Registered.name[1] \in DOMAIN env.reskey
    /\ env.reskey[Registered.name[1]] = <<"O", "n">>
    /\ result = Some([ok |-> TRUE, val |-> PyBool(FALSE)])

\* The arguments of Parameter(...) are acceptable: a known content type, not
\* required with a default, and a default that is a number when the content
\* type is integer.
ValidSpec(required, content, default) ==
    /\ content \in {"string", "integer", "boolean"}
    /\ ~(required /\ default # None)
    /\ default # None /\ content = "integer" => ~NonNumeric(default[1])

\* C16: Parameter(...) raises ValueError whenever required is set together
\* with a default, whenever the content type is not string, integer or
\* boolean, and whenever the default fails the coercion of the content type;
\* it succeeds otherwise; hence no such parameter is ever built or present
\* in a registry.
C16_InvalidParameterSpec ==
    /\ decl.kind = "Parameter" =>
         ValidSpec(decl.required, decl.content, decl.default)
    /\ \A d \in 1..Len(heap) : \A i \in 1..Len(heap[d]) :
         LET p == heap[d][i].val
         IN  p.kind = "Parameter" =>
                 ValidSpec(p.required, p.content, p.default)
    /\ pc = "body" /\ decl = NoneType /\ exc = None =>
         \A unique \in BOOLEAN, required \in BOOLEAN, content \in Contents,
            default \in Defaults :
           LET r == Parameter("s", "l", unique, required, content, default)
           IN  IF ValidSpec(required, content, default)
               THEN /\ r.ok
                    /\ r.val.required = required
                    /\ r.val.content = content
                    /\ r.val.default = default
               ELSE ~r.ok /\ r.exc = "ValueError"
    /\ exc # None /\ exc[1].type = "ValueError" =>
         /\ decl = NoneType
         /\ pc = "exited"
         /\ Len(types) = 1

\* A required parameter with a default ended the class body with
\* ValueError, and nothing was registered.
C16_Witness ==
    /\ pc = "exited"
    /\ exc = Some([type |-> "ValueError",
                   msg |-> "parameter cannot both be required and have a default value"])
    /\ decl = NoneType
    /\ cls_PARAMETERS(types, heap, 1) = <<>>

\* C17: reading a parameter whose name is absent from the environment fails
\* with ValueError when it is required and gives its declared default (None
\* without one) when it is not; when the name is present the result is the
\* coerced raw value: the string itself, a boolean, or for an integer the
\* number ("42" gives 42) or ValueError when the text is no number ("abc").
C17_ParameterResolution ==
    pc = "done" /\ decl.kind = "Parameter" =>
        LET p == Registered
            v == result[1]
        IN  IF p.name[1] \notin DOMAIN env.reskey
            THEN IF p.required
                 THEN v = [ok |-> FALSE, exc |-> "ValueError"]
                 ELSE /\ v.ok
                      /\ p.default = None => v.val = [kind |-> "NoneType"]
                      /\ p.default # None =>
                           v.val = [kind |-> "str", v |-> p.default[1]]
            ELSE LET raw == env.reskey[p.name[1]]
                 IN  /\ p.content = "string" =>
                          v = [ok |-> TRUE, val |-> [kind |-> "str", v |-> raw]]
                     /\ p.content = "boolean" => v.ok /\ v.val.kind = "bool"
                     /\ p.content = "integer" =>
                          /\ ~v.ok <=> NonNumeric(raw)
                          /\ ~v.ok => v.exc = "ValueError"
                          /\ raw = <<"4", "2">> =>
                               v = [ok |-> TRUE,
                                    val |-> [kind |-> "int", v |-> 42]]
                          /\ raw = <<"a", "b", "c">> => ~v.ok

\* An integer parameter set to "42" was read as the number 42.
C17_Witness ==
    /\ pc = "done"
    /\ decl.kind = "Parameter"
    /\ decl.content = "integer"
    /\ Registered.name[1] \in DOMAIN env.reskey
    /\ env.reskey[Registered.name[1]] = <<"4", "2">>
    /\ result = Some([ok |-> TRUE, val |-> PyInt(42)])

\* A required parameter absent from the environment failed to resolve.
C17_WitnessMissing ==
    /\ pc = "done"
    /\ decl.kind = "Parameter"
    /\ decl.required
    /\ Registered.name[1] \notin DOMAIN env.reskey
    /\ result = Some([ok |-> FALSE, exc |-> "ValueError"])

\* C18: when meta-data is dispatched for an instance of a class without
\* description text, the handler raises, the process ends on that error
\* with status 1, and nothing has been written to standard output.
C18_MetadataNeedsDescription ==
    /\ Constructed
    /\ env.action = Some("meta-data")
    /\ ~HasDescription
    =>  /\ stdout = <<>>
        /\ pc = "exited" =>
             /\ called = <<Function("meta_data", 1)>>
             /\ ret = None
             /\ exc = Some([type |-> "AttributeError"])
             /\ exit_code = Some(1)

\* meta-data was dispatched for a class without a docstring and the
\* process ended in the handler.
C18_Witness ==
    /\ pc = "exited"
    /\ Constructed
    /\ env.action = Some("meta-data")
    /\ ~HasDescription
    /\ Len(called) = 1
    /\ exc = Some([type |-> "AttributeError"])
    /\ stdout = <<>>

\* Neither the class cls nor a class it derives from declares a parameter.
RECURSIVE DeclaresNoParameter(_, _)
DeclaresNoParameter(ts, cls) ==
    \/ cls = 0
    \/ /\ \A n \in DOMAIN ts[cls].dict : ts[cls].dict[n].kind # "Parameter"
       /\ DeclaresNoParameter(ts, ts[cls].base)

\* The names of a sequence of nodes without repetitions, each at the place
\* of its first occurrence.
RECURSIVE DistinctNames(_)
DistinctNames(nodes) ==
    IF nodes = <<>> THEN <<>>
    ELSE LET front == DistinctNames(SubSeq(nodes, 1, Len(nodes) - 1))
             n == nodes[Len(nodes)].name
         IN  IF \E i \in 1..Len(front) : front[i] = n THEN front
             ELSE Append(front, n)

\* C19: in the metadata document a dispatch of meta-data prints, the names
\* of the parameter nodes are the names of the parameter registry in
\* registry order, the distinct names of the action nodes are the names of
\* the action registry in registry order, the actions include start, stop,
\* monitor and meta-data, and an agent whose class and ancestors declare no
\* parameter has an empty parameters node.
C19_MetadataRoundTrip ==
    pc = "exited" /\ env.action = Some("meta-data") /\ stdout # <<>> =>
        LET doc == stdout[1]
        IN  /\ [i \in 1..Len(doc.parameters) |-> doc.parameters[i].name]
                 = [i \in 1..Len(Parameters) |-> Parameters[i].name[1]]
            /\ DistinctNames(doc.actions)
                 = [i \in 1..Len(Actions) |-> Actions[i].key]
            /\ {"start", "stop", "monitor", "meta-data"} \subseteq
                 {doc.actions[i].name : i \in 1..Len(doc.actions)}
            /\ DeclaresNoParameter(types, self) => doc.parameters = <<>>

\* C20: once main() has created the instance and called execute(), the
\* process ends: it reaches its exit, with one exit status that is set at
\* the exit and not before, after at most one handler was invoked; execute()
\* never returns to main(), so a status 1 comes from an exception or from a
\* handler that returned 1, never from the statement after execute().
C20_OneShotDispatch ==
    /\ [](Len(called) <= 1)
    /\ [](pc = "exited" <=> exit_code # None)
    /\ [](pc \in {"import", "execute", "validate", "invoke", "exited"})
    /\ [](pc = "exited" /\ Constructed /\ exit_code = Some(1)
            => exc # None \/ ret = Some([kind |-> "int", v |-> 1]))
    /\ [][exit_code # None => exit_code' = exit_code]_vars
    /\ (pc = "execute") ~> (pc = "exited")

\* A dispatch that went through validation and one handler has exited.
C20_Witness ==
    /\ pc = "exited"
    /\ Constructed
    /\ validated # <<>>
    /\ Len(called) = 1
    /\ exit_code = Some(7)

\* The class anc is a proper ancestor of the class cls.
RECURSIVE IsAncestor(_, _, _)
IsAncestor(ts, anc, cls) ==
    /\ cls # 0
    /\ ts[cls].base # 0
    /\ ts[cls].base = anc \/ IsAncestor(ts, anc, ts[cls].base)

\* For instances of cls the method of the registered action a is a plain
\* method that cls or one of its bases defines in the place of the function
\* an ancestor declared the action on.
RedefinedPlain(ts, cls, a) ==
    LET f == Terminal(a)
        c == Owner(ts, cls, f.name)
    IN  /\ c # 0
        /\ ts[c].dict[f.name].kind = "function"
        /\ ts[c].dict[f.name] # f
        /\ IsAncestor(ts, f.def, c)

\* C21: when a class redefines the method of an inherited action as a plain
\* method, dispatching the action on its instances invokes the
\* redefinition, once, and no other handler; the class statement leaves the
\* registry entry as the ancestor declared it; and the metadata shows the
\* ancestor's scheduling hints.
C21_MethodOverride ==
    /\ [](Constructed /\ env.action # None
            /\ env.action[1] \in DictKeys(Actions)
            /\ RedefinedPlain(types, self, DictGet(Actions, env.action[1]))
          =>  LET f == Terminal(DictGet(Actions, env.action[1]))
                  g == types[Owner(types, self, f.name)].dict[f.name]
              IN  /\ Len(called) <= 1
                  /\ called # <<>> => called = <<g>>
                  /\ pc \in {"validate", "invoke"} => action_method = Some(g)
                  /\ /\ pc = "exited"
                     /\ env.action[1] = "meta-data" \/ ~SomeParameterFails
                     => called = <<g>>)
    /\ [][Len(types') > Len(types) =>
            \A d \in 1..Len(heap) : \A i \in 1..Len(heap[d]) :
              LET old == heap[d][i].val
                  new == Len(types')
              IN  /\ old.kind = "Action"
                  /\ Terminal(old).name \in DOMAIN types'[new].dict
                  /\ Terminal(DictGet(heap'[d], heap[d][i].key))
                       # types'[new].dict[Terminal(old).name]
                  => DictGet(heap'[d], heap[d][i].key) = old
         ]_vars
    /\ [](/\ pc = "exited"
          /\ env.action = Some("meta-data")
          /\ stdout # <<>>
          /\ RedefinedPlain(types, self, DictGet(Actions, "validate-all"))
          => NodesNamed(stdout[1], "validate-all") =
               <<[tag |-> "action", name |-> "validate-all", timeout |-> 5,
                  interval |-> None, start_delay |-> None, depth |-> None,
                  role |-> None]>>)

\* validate-all was dispatched on an instance of a class that redefines
\* validate_all as a plain method, and the redefinition ran.
C21_Witness ==
    /\ pc = "exited"
    /\ Constructed
    /\ env.action = Some("validate-all")
    /\ self # 1
    /\ Terminal(DictGet(Actions, "validate-all")) = Function("validate_all", 1)
    /\ called = <<Function("validate_all", self)>>

\* C22: for every instance that main() created, each of start, stop,
\* monitor and meta-data is registered by an action that the class of the
\* instance or one of its ancestors declared, and the method of that action
\* is found on the instance; so an instance is never created of a class
\* that neither declares nor inherits start, stop and monitor.
C22_CompleteMeansOwn ==
    Constructed =>
        \A k \in {"start", "stop", "monitor", "meta-data"} :
          /\ k \in DictKeys(Actions)
          /\ LET f == Terminal(DictGet(Actions, k))
             IN  /\ f.def = self \/ IsAncestor(types, f.def, self)
                 /\ Owner(types, self, f.name) # 0

\* C23: reading an optional parameter that has a default and is absent from
\* the environment gives what reading it gives when the environment holds
\* the text of the default: the coerced default, a number for an integer
\* parameter and a boolean for a boolean one.
C23_DefaultIsCoerced ==
    /\ pc = "done"
    /\ decl.kind = "Parameter"
    /\ ~decl.required
    /\ decl.default # None
    /\ Registered.name[1] \notin DOMAIN env.reskey
    =>  LET set == Parameter_value(Registered,
                                   Registered.name[1] :> decl.default[1])
        IN  /\ set.ok
            /\ result[1].ok
            /\ decl.content = "integer" => result[1].val.kind = "int"
            /\ decl.content = "boolean" => result[1].val.kind = "bool"
            /\ result[1].val.kind = set.val.kind
            /\ result[1].val = set.val

\* C24: meta-data dispatched on an instance of a class with description
\* text prints the metadata document and exits with 0, whatever the
\* environment holds for the parameters, which are not validated.
C24_MetaDataSucceeds ==
    Constructed /\ env.action = Some("meta-data") /\ HasDescription =>
        /\ validated = <<>>
        /\ pc # "validate"
        /\ pc = "exited" =>
             /\ exit_code = Some(0)
             /\ exc = None
             /\ called = <<Function("meta_data", 1)>>
             /\ Len(stdout) = 1
             /\ stdout[1].tag = "resource-agent"
             /\ stdout[1].shortdesc = Head(types[self].dict["__doc__"].lines)
             /\ Len(stdout[1].parameters) = Len(Parameters)
             /\ Len(stdout[1].actions) >= Len(Actions)

\* meta-data printed the document and exited with 0 although a required
\* parameter was absent and an integer parameter was set to a word.
C24_Witness ==
    /\ pc = "exited"
    /\ Constructed
    /\ env.action = Some("meta-data")
    /\ HasDescription
    /\ \E i \in 1..Len(Parameters) :
         Parameters[i].required /\ Parameters[i].name[1] \notin DOMAIN env.reskey
    /\ \E i \in 1..Len(Parameters) :
         /\ Parameters[i].content = "integer"
         /\ Parameters[i].name[1] \in DOMAIN env.reskey
         /\ NonNumeric(env.reskey[Parameters[i].name[1]])
    /\ Len(stdout) = 1
    /\ exit_code = Some(0)

====
